---- MODULE Spec2Model ----
(***************************************************************************)
(* Model of the local bootstrap orchestrator of reposwarm-cli:             *)
(* internal/bootstrap/local.go (SetupLocal and the per-service setup       *)
(* functions) and the Environment probe it consumes.                       *)
(*                                                                         *)
(* One run of SetupLocal is a sequential process; pc is its position.      *)
(* Every call that leaves the process (os.MkdirAll, os.WriteFile,          *)
(* exec.Command, http GET) is one step whose outcome is chosen by the      *)
(* environment, and is appended to the history `ops`.                      *)
(***************************************************************************)
EXTENDS Integers, Sequences, FiniteSets, TLC

\* ---------------------------------------------------------------- bounds
\* number of distinct values crypto/rand can hand to randomHex in the model
NumTokens == 2
\* seconds past its deadline for which a health wait is still followed
MaxOverrun == 5
\* longest buffer randomHex fills byte by byte from the sample bytes
MaxHexBytes == 2
\* number of times the command is invoked against one install directory
MaxRuns == 2

\* ------------------------------------------------------ program constants
TemporalTimeout == 60
APITimeout == 30
UITimeout == 30
TickInterval == 2
ClientTimeout == 5
PermSecret == 600
PermPublic == 644
TokenBytes == 32

\* ------------------------------------------------------------ value sets
NoToken == 0
Tokens == 1..NumTokens
\* a token left behind by an earlier run (never drawn again in this one)
OldToken == NumTokens + 1
NoPid == 0

\* what one GET can produce: 0 is a transport error, otherwise a status code
Responses == {0, 200, 404, 503}

\* defaults.go: the ports a Config carries unless overridden
DefaultTemporalPort == "7233"
DefaultTemporalUIPort == "8233"
DefaultAPIPort == "3000"
DefaultUIPort == "3001"

Bools == {TRUE, FALSE}

VARIABLES
    env,        \* *Environment handed to SetupLocal (presence flags)
    cfg,        \* *Config handed to SetupLocal
    pc,         \* position of the run inside SetupLocal
    result,     \* *LocalSetupResult
    err,        \* the error SetupLocal returns ("nil" while none)
    token,      \* local variable token of SetupLocal
    printed,    \* calls made on the Printer (Section, Warning, Error)
    dirs,       \* directories that exist
    files,      \* path -> file (existence, permission bits, content)
    procs,      \* processes spawned so far, in spawn order
    ops,        \* history of calls that left the process, with outcome
    waitNow,    \* waitForHTTP: seconds since the wait began
    waitTick,   \* waitForHTTP: time of the next tick the ticker delivers
    allOK,      \* verifyServices: local variable allOK
    messages,   \* verifyServices: local variable messages
    hex,        \* one call of randomHex: its argument, buffer and return values
    run,        \* number of invocations of SetupLocal so far
    wait,       \* one call of waitForHTTP followed on its own
    cmd,        \* `reposwarm new --local`: the --json flag and what RunE returns
    det,        \* one call of Detect: its position and the Environment so far
    runs        \* two concurrent runs of SetupLocal: position, token, API pid

vars == <<env, cfg, pc, result, err, token, printed, dirs, files, procs, ops,
          waitNow, waitTick, allOK, messages, hex, run, wait, cmd, det, runs>>

\* what a run of SetupLocal only reads, and the state of the calls that are
\* followed on their own
sideVars == <<det, runs>>
callVars == <<env, cfg, hex, run, cmd, sideVars>>
inputVars == <<callVars, wait>>
fsVars == <<dirs, files, procs>>
waitVars == <<waitNow, waitTick>>
verifyVars == <<allOK, messages>>

\* ------------------------------------------------------------- Environment
MissingDeps_NoGit(e) ==
    (IF ~e.HasDocker THEN <<"docker">> ELSE <<>>) \o
    (IF ~e.HasCompose THEN <<"docker-compose">> ELSE <<>>) \o
    (IF ~e.HasNode THEN <<"node (v22+)">> ELSE <<>>) \o
    (IF ~e.HasPython THEN <<"python3 (3.11+)">> ELSE <<>>)

MissingDeps(e) ==
    (IF ~e.HasDocker THEN <<"docker">> ELSE <<>>) \o
    (IF ~e.HasCompose THEN <<"docker-compose">> ELSE <<>>) \o
    (IF ~e.HasNode THEN <<"node (v22+)">> ELSE <<>>) \o
    (IF ~e.HasPython THEN <<"python3 (3.11+)">> ELSE <<>>) \o
    (IF ~e.HasGit THEN <<"git">> ELSE <<>>)

Environments ==
    [HasDocker : Bools, HasCompose : Bools, HasNode : Bools,
     HasPython : Bools, HasGit : Bools]

Configs ==
    [TemporalPort : {DefaultTemporalPort}, TemporalUIPort : {DefaultTemporalUIPort},
     APIPort : {DefaultAPIPort}, UIPort : {DefaultUIPort}]

\* ------------------------------------------------------------- file system
Paths ==
    {"temporal/docker-compose.yml",
     "api/.env", "api/api.log", "api/api.pid",
     "worker/.env", "worker/worker.log", "worker/worker.pid",
     "ui/.env.local", "ui/ui.log", "ui/ui.pid",
     "~/.reposwarm/config.json"}

Absent == [exists |-> FALSE, perm |-> 0, token |-> NoToken, pid |-> NoPid]

File(perm, tok, pid) == [exists |-> TRUE, perm |-> perm, token |-> tok, pid |-> pid]

\* os.WriteFile: creates the file with perm, or truncates an existing file
\* and keeps the permission bits it already has
WriteFile(fs, path, perm, tok, pid) ==
    [fs EXCEPT ![path] =
        IF @.exists THEN File(@.perm, tok, pid) ELSE File(perm, tok, pid)]

\* os.Create: creates with 0666 (before umask) or truncates
Create(fs, path) ==
    [fs EXCEPT ![path] =
        IF @.exists THEN File(@.perm, NoToken, NoPid) ELSE File(PermPublic, NoToken, NoPid)]

\* _, err := os.Stat(dir); os.IsNotExist(err)
IsNotExist_Always(d) == TRUE

IsNotExist(d) == d \notin dirs

\* os.MkdirAll returns nil for a directory that is already there
MkdirOutcomes(d) == IF d \in dirs THEN {TRUE} ELSE Bools

\* ------------------------------------------------------------- result type
LocalStepResult(name, status, message) ==
    [Name |-> name, Status |-> status, Message |-> message]

Op(name, ok) == [op |-> name, ok |-> ok]

Section(title) == [kind |-> "Section", text |-> title]
Warning(msg) == [kind |-> "Warning", text |-> msg]
Error(msg) == [kind |-> "Error", text |-> msg]

RECURSIVE ErrorLines(_)
ErrorLines(missing) ==
    IF missing = <<>> THEN <<>>
    ELSE <<Error(Head(missing))>> \o ErrorLines(Tail(missing))

\* result := &LocalSetupResult{InstallDir: installDir} (local.go 59)
NewResult_SuccessTrue ==
    [InstallDir |-> "install", Token |-> NoToken, Steps |-> <<>>, Success |-> TRUE]

NewResult ==
    [InstallDir |-> "install", Token |-> NoToken, Steps |-> <<>>, Success |-> FALSE]

\* result.Steps = append(result.Steps, step)
AppendStep_Prepend(r, step) == [r EXCEPT !.Steps = <<step>> \o @]

AppendStep(r, step) == [r EXCEPT !.Steps = Append(@, step)]

\* a critical step failed: record it and return (result, error)
Abort_DropSteps(name, message, e) ==
    /\ result' = [result EXCEPT !.Steps = <<LocalStepResult(name, "fail", message)>>]
    /\ err' = e
    /\ pc' = "done"

Abort_NoReturn(name, message, e) ==
    /\ result' = AppendStep(result, LocalStepResult(name, "fail", message))
    /\ err' = e
    /\ pc' = CASE name = "prerequisites" -> "token"
            [] name = "directories" -> "temporal.mkdir"
            [] name = "temporal" -> "api.clone"
            [] name = "api" -> "worker.clone"
            [] OTHER -> "verify.Temporal"

Abort(name, message, e) ==
    /\ result' = AppendStep(result, LocalStepResult(name, "fail", message))
    /\ err' = e
    /\ pc' = "done"

\* --------------------------------------------------------------- randomHex
\* (local.go 543-549) b := make([]byte, n); rand.Read(b); hex.EncodeToString(b)
HexDigits ==
    <<"0", "1", "2", "3", "4", "5", "6", "7", "8", "9", "a", "b", "c", "d", "e", "f">>

Bytes == 0..255

ByteSamples == {0, 9, 10, 15, 16, 127, 128, 255}

\* a byte printed without its leading zero, as "%x" would
RECURSIVE EncodeToString_NoPad(_)
EncodeToString_NoPad(b) ==
    IF b = <<>> THEN <<>>
    ELSE (IF Head(b) < 16
          THEN <<HexDigits[Head(b) + 1]>>
          ELSE <<HexDigits[(Head(b) \div 16) + 1], HexDigits[(Head(b) % 16) + 1]>>)
         \o EncodeToString_NoPad(Tail(b))

\* encoding/hex: two digits per byte, high nibble first
EncodeToString(b) ==
    [i \in 1..(2 * Len(b)) |->
        IF i % 2 = 1
        THEN HexDigits[(b[(i + 1) \div 2] \div 16) + 1]
        ELSE HexDigits[(b[i \div 2] % 16) + 1]]

\* the arguments followed: short buffers and the one SetupLocal asks for
HexLengths == (0..MaxHexBytes) \cup {TokenBytes}

\* what rand.Read can leave in a buffer of n bytes: every byte for n = 1,
\* the sample bytes in every position for short buffers, and two sample
\* bytes alternating for longer ones
RandFills(n) ==
    IF n <= 1 THEN [1..n -> Bytes]
    ELSE IF n <= MaxHexBytes THEN [1..n -> ByteSamples]
    ELSE {[i \in 1..n |-> p[((i - 1) % 2) + 1]] : p \in [1..2 -> ByteSamples]}

HexIdle == [pc |-> "idle", n |-> 0, b |-> <<>>, out |-> <<>>, err |-> "nil"]

HexCall(n) == [pc |-> "call", n |-> n, b |-> <<>>, out |-> <<>>, err |-> "nil"]

\* ------------------------------------------------------------------- Init
\* The install directory may be absent, empty, or left over from an earlier
\* run that got as far as the API or through all services.  The CLI
\* configuration file and the API env file may already exist, with either
\* permission.
\* no call of waitForHTTP is followed on its own
WaitIdle ==
    [pc |-> "idle", timeout |-> 0, endpoint |-> "any", err |-> "nil",
     at |-> 0, polls |-> 0, last |-> 0]

\* the command layer is not looked at
CmdIdle == [flagJSON |-> FALSE, pc |-> "none", exit |-> 0]

\* Detect is not followed
DetIdle == [pc |-> "idle", env |-> <<>>]

\* the two concurrent runs: the processes and their state before they start
RunIds == {1, 2}

RunsIdle == [p \in RunIds |-> [pc |-> "idle", token |-> NoToken, pid |-> NoPid]]

SideIdle == det = DetIdle /\ runs = RunsIdle

InitialDirs ==
    {{}, {"install"}, {"install", "api"}, {"install", "api", "worker", "ui"}}

InitialFiles(d) ==
    {[p \in Paths |->
        IF p = "~/.reposwarm/config.json" THEN c
        ELSE IF p = "api/.env" THEN a
        ELSE Absent] :
        c \in {Absent, File(PermSecret, OldToken, NoPid), File(PermPublic, OldToken, NoPid)},
        a \in IF "api" \in d
              THEN {Absent, File(PermPublic, OldToken, NoPid)}
              ELSE {Absent}}

InitSetup ==
    /\ env \in Environments
    /\ cfg \in Configs
    /\ pc = "prerequisites"
    /\ result = NewResult
    /\ err = "nil"
    /\ token = NoToken
    /\ printed = <<>>
    /\ \E d \in InitialDirs :
        /\ files \in InitialFiles(d)
        /\ dirs = d \cup (IF files["~/.reposwarm/config.json"].exists
                          THEN {"~/.reposwarm"} ELSE {})
    /\ procs = <<>>
    /\ ops = <<>>
    /\ waitNow = 0
    /\ waitTick = TickInterval
    /\ allOK = TRUE
    /\ messages = <<>>

Init ==
    /\ InitSetup
    /\ hex = HexIdle
    /\ run = 1
    /\ wait = WaitIdle
    /\ cmd = CmdIdle
    /\ SideIdle

\* every prerequisite is there and nothing is on disk; NoRun: SetupLocal
\* is not called at all
AllPresent ==
    [HasDocker |-> TRUE, HasCompose |-> TRUE, HasNode |-> TRUE,
     HasPython |-> TRUE, HasGit |-> TRUE]

FreshMachine ==
    /\ env = AllPresent
    /\ cfg \in Configs
    /\ result = NewResult
    /\ err = "nil"
    /\ token = NoToken
    /\ printed = <<>>
    /\ dirs = {}
    /\ files = [p \in Paths |-> Absent]
    /\ procs = <<>>
    /\ ops = <<>>
    /\ waitNow = 0
    /\ waitTick = TickInterval
    /\ allOK = TRUE
    /\ messages = <<>>

NoRun == FreshMachine /\ pc = "idle"

\* ------------------------------------------------------------- SetupLocal
\* Step 0: prerequisites (local.go 61-71)
CheckPrerequisites_NoReturn ==
    /\ pc = "prerequisites"
    /\ LET missing == MissingDeps(env) IN
       /\ printed' = printed \o <<Section("Checking prerequisites")>> \o ErrorLines(missing)
       /\ result' = AppendStep(result,
              LocalStepResult("prerequisites", IF Len(missing) > 0 THEN "fail" ELSE "ok", missing))
       /\ pc' = "token"
       /\ err' = err
    /\ UNCHANGED <<inputVars, token, fsVars, ops, waitVars, verifyVars>>

CheckPrerequisites ==
    /\ pc = "prerequisites"
    /\ LET missing == MissingDeps(env) IN
       IF Len(missing) > 0
       THEN /\ printed' = printed \o <<Section("Checking prerequisites")>> \o ErrorLines(missing)
            /\ Abort("prerequisites", <<"missing: ">> \o missing, "missing prerequisites")
       ELSE /\ printed' = Append(printed, Section("Checking prerequisites"))
            /\ result' = AppendStep(result, LocalStepResult("prerequisites", "ok", <<>>))
            /\ pc' = "token"
            /\ err' = err
    /\ UNCHANGED <<inputVars, token, fsVars, ops, waitVars, verifyVars>>

\* token, err := randomHex(32) (local.go 73-78)
GenerateToken ==
    /\ pc = "token"
    /\ \/ \E t \in Tokens :
            /\ ops' = Append(ops, Op("rand read", TRUE))
            /\ token' = t
            /\ result' = [result EXCEPT !.Token = t]
            /\ pc' = "directories"
            /\ err' = err
       \/ /\ ops' = Append(ops, Op("rand read", FALSE))
          /\ err' = "generating token"
          /\ pc' = "done"
          /\ UNCHANGED <<token, result>>
    /\ UNCHANGED <<inputVars, printed, fsVars, waitVars, verifyVars>>

\* Step 1: os.MkdirAll(installDir, 0755) (local.go 80-87)
CreateDirectories ==
    /\ pc = "directories"
    /\ printed' = Append(printed, Section("Creating directory structure"))
    /\ \E ok \in MkdirOutcomes("install") :
        /\ ops' = Append(ops, Op("mkdir install", ok))
        /\ IF ok
           THEN /\ dirs' = dirs \cup {"install"}
                /\ result' = AppendStep(result, LocalStepResult("directories", "ok", <<"install">>))
                /\ pc' = "temporal.mkdir"
                /\ err' = err
           ELSE /\ Abort("directories", <<"mkdir failed">>, "creating install directory")
                /\ dirs' = dirs
    /\ UNCHANGED <<inputVars, token, files, procs, waitVars, verifyVars>>

\* ------------------------------------------------------------ waitForHTTP
\* (local.go 519-541) The ticker delivers a tick every TickInterval seconds
\* into a channel of capacity one; ctx.Done() becomes ready at the deadline.
\* A GET takes no time or hangs until the client's own timeout (an error).
\* When both channels are ready, select picks either.
PollStart == IF waitTick > waitNow THEN waitTick ELSE waitNow

CanPoll(timeout) ==
    /\ waitTick <= waitNow \/ waitTick <= timeout
    /\ PollStart <= timeout + MaxOverrun

CanTimeout_Never(timeout) == FALSE

CanTimeout(timeout) == waitNow >= timeout \/ waitTick >= timeout

NextTickAfter(s) == ((s \div TickInterval) + 1) * TickInterval

\* resp.StatusCode < 500 on a GET that returned no error
WaitHealthy_400(r) == r # 0 /\ r < 400

WaitHealthy_AnyResponse(r) == r # 0

WaitHealthy(r) == r # 0 /\ r < 500

GetOutcomes ==
    {<<r, 0>> : r \in Responses} \cup {<<0, ClientTimeout>>}

\* The status codes the waits of a run meet are kept only when they are
\* followed (wait.pc = "pipeline"): the code on which each service's wait
\* returned nil, and the codes on which the wait in progress looped.
WaitFollowed ==
    [pc |-> "pipeline", codes |-> [svc \in {"temporal", "api", "ui"} |-> 0],
     rejected |-> {}]

ObserveReturn(svc, code) ==
    IF wait.pc = "pipeline"
    THEN [wait EXCEPT !.codes[svc] = code, !.rejected = {}]
    ELSE wait

ObserveRetry(code) ==
    IF wait.pc = "pipeline"
    THEN [wait EXCEPT !.rejected = @ \cup {code}]
    ELSE wait

ObserveTimeout ==
    IF wait.pc = "pipeline" THEN [wait EXCEPT !.rejected = {}] ELSE wait

\* one iteration of the loop taking the ticker branch, the GET not healthy
PollAgain(g) ==
    /\ ~WaitHealthy(g[1])
    /\ waitNow' = PollStart + g[2]
    /\ waitTick' = NextTickAfter(PollStart)

WaitReset ==
    /\ waitNow' = 0
    /\ waitTick' = TickInterval

\* ----------------------------------------------------------- setupTemporal
\* (local.go 89-95, 164-196)
TemporalMkdir ==
    /\ pc = "temporal.mkdir"
    /\ printed' = Append(printed, Section("Starting Temporal (Docker Compose)"))
    /\ \E ok \in MkdirOutcomes("temporal") :
        /\ ops' = Append(ops, Op("mkdir temporal", ok))
        /\ IF ok
           THEN /\ dirs' = dirs \cup {"temporal"}
                /\ pc' = "temporal.compose"
                /\ UNCHANGED <<result, err>>
           ELSE /\ Abort("temporal", <<"mkdir failed">>, "temporal setup")
                /\ dirs' = dirs
    /\ UNCHANGED <<inputVars, token, files, procs, waitVars, verifyVars>>

TemporalWriteCompose ==
    /\ pc = "temporal.compose"
    /\ \E ok \in Bools :
        /\ ops' = Append(ops, Op("write temporal/docker-compose.yml", ok))
        /\ IF ok
           THEN /\ files' = WriteFile(files, "temporal/docker-compose.yml", PermPublic, NoToken, NoPid)
                /\ pc' = "temporal.up"
                /\ UNCHANGED <<result, err>>
           ELSE /\ Abort("temporal", <<"writing docker-compose.yml">>, "temporal setup")
                /\ files' = files
    /\ UNCHANGED <<inputVars, token, printed, dirs, procs, waitVars, verifyVars>>

TemporalComposeUp_NoWait ==
    /\ pc = "temporal.up"
    /\ \E ok \in Bools :
        /\ ops' = Append(ops, Op("docker compose up", ok))
        /\ IF ok
           THEN /\ pc' = "api.clone"
                /\ result' = AppendStep(result,
                       LocalStepResult("temporal", "ok", <<"http://localhost:", cfg.TemporalUIPort>>))
                /\ err' = err
           ELSE Abort("temporal", <<"docker compose up failed">>, "temporal setup")
    /\ UNCHANGED <<inputVars, token, printed, fsVars, waitVars, verifyVars>>

TemporalComposeUp ==
    /\ pc = "temporal.up"
    /\ \E ok \in Bools :
        /\ ops' = Append(ops, Op("docker compose up", ok))
        /\ IF ok
           THEN /\ pc' = "temporal.wait"
                /\ UNCHANGED <<result, err>>
           ELSE Abort("temporal", <<"docker compose up failed">>, "temporal setup")
    /\ UNCHANGED <<inputVars, token, printed, fsVars, waitVars, verifyVars>>

TemporalWaitPoll ==
    /\ pc = "temporal.wait"
    /\ CanPoll(TemporalTimeout)
    /\ \E g \in GetOutcomes :
        \/ /\ WaitHealthy(g[1])
           /\ WaitReset
           /\ wait' = ObserveReturn("temporal", g[1])
           /\ ops' = Append(ops, Op("wait temporal", TRUE))
           /\ result' = AppendStep(result,
                  LocalStepResult("temporal", "ok", <<"http://localhost:", cfg.TemporalUIPort>>))
           /\ pc' = "api.clone"
           /\ err' = err
        \/ /\ PollAgain(g)
           /\ wait' = ObserveRetry(g[1])
           /\ UNCHANGED <<ops, result, pc, err>>
    /\ UNCHANGED <<callVars, token, printed, fsVars, verifyVars>>

TemporalWaitTimeout ==
    /\ pc = "temporal.wait"
    /\ CanTimeout(TemporalTimeout)
    /\ WaitReset
    /\ wait' = ObserveTimeout
    /\ ops' = ops \o <<Op("wait temporal", FALSE), Op("docker compose ps", TRUE)>>
    /\ Abort("temporal", <<"temporal not ready after 60s">>, "temporal setup")
    /\ UNCHANGED <<callVars, token, printed, fsVars, verifyVars>>

\* ---------------------------------------------------------------- setupAPI
\* (local.go 97-103, 198-272)
APIClone ==
    /\ pc = "api.clone"
    /\ printed' = Append(printed, Section("Setting up API server"))
    /\ IF IsNotExist("api")
       THEN \E ok \in Bools :
            /\ ops' = Append(ops, Op("git clone api", ok))
            /\ IF ok
               THEN /\ dirs' = dirs \cup {"api"}
                    /\ pc' = "api.install"
                    /\ UNCHANGED <<result, err>>
               ELSE /\ Abort("api", <<"git clone failed">>, "API setup")
                    /\ dirs' = dirs
       ELSE /\ pc' = "api.install"
            /\ UNCHANGED <<ops, dirs, result, err>>
    /\ UNCHANGED <<inputVars, token, files, procs, waitVars, verifyVars>>

APINpmInstall ==
    /\ pc = "api.install"
    /\ \E ok \in Bools :
        /\ ops' = Append(ops, Op("npm install api", ok))
        /\ IF ok
           THEN /\ pc' = "api.build"
                /\ UNCHANGED <<result, err>>
           ELSE Abort("api", <<"npm install failed">>, "API setup")
    /\ UNCHANGED <<inputVars, token, printed, fsVars, waitVars, verifyVars>>

APINpmBuild_NonFatal ==
    /\ pc = "api.build"
    /\ \E ok \in Bools :
        /\ ops' = Append(ops, Op("npm run build api", ok))
        /\ pc' = "api.env"
        /\ UNCHANGED <<result, err>>
    /\ UNCHANGED <<inputVars, token, printed, fsVars, waitVars, verifyVars>>

APINpmBuild ==
    /\ pc = "api.build"
    /\ \E ok \in Bools :
        /\ ops' = Append(ops, Op("npm run build api", ok))
        /\ IF ok
           THEN /\ pc' = "api.env"
                /\ UNCHANGED <<result, err>>
           ELSE Abort("api", <<"npm build failed">>, "API setup")
    /\ UNCHANGED <<inputVars, token, printed, fsVars, waitVars, verifyVars>>

\* the token written as BEARER_TOKEN (local.go 230-242)
APIEnvToken_None(t) == NoToken

APIEnvToken(t) == t

APIWriteEnv ==
    /\ pc = "api.env"
    /\ \E ok \in Bools :
        /\ ops' = Append(ops, Op("write api/.env", ok))
        /\ IF ok
           THEN /\ files' = WriteFile(files, "api/.env", PermSecret, APIEnvToken(token), NoPid)
                /\ pc' = "api.log"
                /\ UNCHANGED <<result, err>>
           ELSE /\ Abort("api", <<"writing .env">>, "API setup")
                /\ files' = files
    /\ UNCHANGED <<inputVars, token, printed, dirs, procs, waitVars, verifyVars>>

APICreateLog ==
    /\ pc = "api.log"
    /\ \E ok \in Bools :
        /\ ops' = Append(ops, Op("create api/api.log", ok))
        /\ IF ok
           THEN /\ files' = Create(files, "api/api.log")
                /\ pc' = "api.start"
                /\ UNCHANGED <<result, err>>
           ELSE /\ Abort("api", <<"creating log file">>, "API setup")
                /\ files' = files
    /\ UNCHANGED <<inputVars, token, printed, dirs, procs, waitVars, verifyVars>>

\* startCmd.Start(): the new process gets the next process id
Spawn_IfNotRunning(ps, svc) ==
    IF \E i \in 1..Len(ps) : ps[i].svc = svc THEN ps
    ELSE Append(ps, [svc |-> svc, pid |-> Len(ps) + 1])

Spawn(ps, svc) == Append(ps, [svc |-> svc, pid |-> Len(ps) + 1])

APIStart ==
    /\ pc = "api.start"
    /\ \E ok \in Bools :
        /\ ops' = Append(ops, Op("start api", ok))
        /\ IF ok
           THEN /\ procs' = Spawn(procs, "api")
                /\ pc' = "api.pid"
                /\ UNCHANGED <<result, err>>
           ELSE /\ Abort("api", <<"starting API">>, "API setup")
                /\ procs' = procs
    /\ UNCHANGED <<inputVars, token, printed, dirs, files, waitVars, verifyVars>>

\* os.WriteFile(pidFile, ...) with its error discarded (local.go 261-263)
APIWritePid ==
    /\ pc = "api.pid"
    /\ \E ok \in Bools :
        /\ ops' = Append(ops, Op("write api/api.pid", ok))
        /\ files' = IF ok
                    THEN WriteFile(files, "api/api.pid", PermPublic, NoToken, procs[Len(procs)].pid)
                    ELSE files
    /\ pc' = "api.wait"
    /\ UNCHANGED <<inputVars, token, printed, dirs, procs, result, err, waitVars, verifyVars>>

APIWaitPoll ==
    /\ pc = "api.wait"
    /\ CanPoll(APITimeout)
    /\ \E g \in GetOutcomes :
        \/ /\ WaitHealthy(g[1])
           /\ WaitReset
           /\ wait' = ObserveReturn("api", g[1])
           /\ ops' = Append(ops, Op("wait api", TRUE))
           /\ result' = AppendStep(result,
                  LocalStepResult("api", "ok", <<"http://localhost:", cfg.APIPort>>))
           /\ pc' = "worker.clone"
           /\ err' = err
        \/ /\ PollAgain(g)
           /\ wait' = ObserveRetry(g[1])
           /\ UNCHANGED <<ops, result, pc, err>>
    /\ UNCHANGED <<callVars, token, printed, fsVars, verifyVars>>

APIWaitTimeout_NonFatal ==
    /\ pc = "api.wait"
    /\ CanTimeout(APITimeout)
    /\ WaitReset
    /\ wait' = ObserveTimeout
    /\ ops' = Append(ops, Op("wait api", FALSE))
    /\ result' = AppendStep(result,
           LocalStepResult("api", "ok", <<"http://localhost:", cfg.APIPort>>))
    /\ pc' = "worker.clone"
    /\ err' = err
    /\ UNCHANGED <<callVars, token, printed, fsVars, verifyVars>>

APIWaitTimeout ==
    /\ pc = "api.wait"
    /\ CanTimeout(APITimeout)
    /\ WaitReset
    /\ wait' = ObserveTimeout
    /\ ops' = Append(ops, Op("wait api", FALSE))
    /\ Abort("api", <<"API not ready after 30s">>, "API setup")
    /\ UNCHANGED <<callVars, token, printed, fsVars, verifyVars>>

\* ------------------------------------------------------------- setupWorker
\* (local.go 105-113, 274-351) A failure is warned about and recorded; the
\* run goes on with the UI.
WorkerFailed_Return(out, message) ==
    /\ printed' = Append(out, Warning("Worker setup failed"))
    /\ result' = AppendStep(result, LocalStepResult("worker", "fail", message))
    /\ pc' = "done"

WorkerFailed(out, message) ==
    /\ printed' = Append(out, Warning("Worker setup failed"))
    /\ result' = AppendStep(result, LocalStepResult("worker", "fail", message))
    /\ pc' = "ui.clone"

WorkerClone ==
    /\ pc = "worker.clone"
    /\ IF IsNotExist("worker")
       THEN \E ok \in Bools :
            /\ ops' = Append(ops, Op("git clone worker", ok))
            /\ IF ok
               THEN /\ dirs' = dirs \cup {"worker"}
                    /\ pc' = "worker.venv"
                    /\ printed' = Append(printed, Section("Setting up Worker"))
                    /\ UNCHANGED result
               ELSE /\ WorkerFailed(Append(printed, Section("Setting up Worker")), <<"git clone failed">>)
                    /\ dirs' = dirs
       ELSE /\ pc' = "worker.venv"
            /\ printed' = Append(printed, Section("Setting up Worker"))
            /\ UNCHANGED <<ops, dirs, result>>
    /\ UNCHANGED <<inputVars, token, err, files, procs, waitVars, verifyVars>>

WorkerVenv ==
    /\ pc = "worker.venv"
    /\ \E ok \in Bools :
        /\ ops' = Append(ops, Op("python3 -m venv worker", ok))
        /\ IF ok
           THEN /\ pc' = "worker.pip"
                /\ UNCHANGED <<result, printed>>
           ELSE WorkerFailed(printed, <<"venv creation failed">>)
    /\ UNCHANGED <<inputVars, token, err, fsVars, waitVars, verifyVars>>

WorkerPip ==
    /\ pc = "worker.pip"
    /\ \E ok \in Bools :
        /\ ops' = Append(ops, Op("pip install worker", ok))
        /\ IF ok
           THEN /\ pc' = "worker.env"
                /\ UNCHANGED <<result, printed>>
           ELSE WorkerFailed(printed, <<"pip install failed">>)
    /\ UNCHANGED <<inputVars, token, err, fsVars, waitVars, verifyVars>>

\* the worker's env file and process environment carry no token
\* (local.go 306-317, 332-339): setupWorker is not even passed it
WorkerWriteEnv ==
    /\ pc = "worker.env"
    /\ \E ok \in Bools :
        /\ ops' = Append(ops, Op("write worker/.env", ok))
        /\ IF ok
           THEN /\ files' = WriteFile(files, "worker/.env", PermSecret, NoToken, NoPid)
                /\ pc' = "worker.log"
                /\ UNCHANGED <<result, printed>>
           ELSE /\ WorkerFailed(printed, <<"writing .env">>)
                /\ files' = files
    /\ UNCHANGED <<inputVars, token, err, dirs, procs, waitVars, verifyVars>>

WorkerCreateLog ==
    /\ pc = "worker.log"
    /\ \E ok \in Bools :
        /\ ops' = Append(ops, Op("create worker/worker.log", ok))
        /\ IF ok
           THEN /\ files' = Create(files, "worker/worker.log")
                /\ pc' = "worker.start"
                /\ UNCHANGED <<result, printed>>
           ELSE /\ WorkerFailed(printed, <<"creating log file">>)
                /\ files' = files
    /\ UNCHANGED <<inputVars, token, err, dirs, procs, waitVars, verifyVars>>

WorkerStart ==
    /\ pc = "worker.start"
    /\ \E ok \in Bools :
        /\ ops' = Append(ops, Op("start worker", ok))
        /\ IF ok
           THEN /\ procs' = Spawn(procs, "worker")
                /\ pc' = "worker.pid"
                /\ UNCHANGED <<result, printed>>
           ELSE /\ WorkerFailed(printed, <<"starting worker">>)
                /\ procs' = procs
    /\ UNCHANGED <<inputVars, token, err, dirs, files, waitVars, verifyVars>>

\* pid file written with the error discarded; setupWorker returns nil without
\* any health wait (local.go 346-350)
WorkerWritePid ==
    /\ pc = "worker.pid"
    /\ \E ok \in Bools :
        /\ ops' = Append(ops, Op("write worker/worker.pid", ok))
        /\ files' = IF ok
                    THEN WriteFile(files, "worker/worker.pid", PermPublic, NoToken, procs[Len(procs)].pid)
                    ELSE files
    /\ result' = AppendStep(result, LocalStepResult("worker", "ok", <<>>))
    /\ pc' = "ui.clone"
    /\ UNCHANGED <<inputVars, token, err, printed, dirs, procs, waitVars, verifyVars>>

\* ----------------------------------------------------------------- setupUI
\* (local.go 115-122, 353-410)
UIFailed(out, message) ==
    /\ printed' = Append(out, Warning("UI setup failed"))
    /\ result' = AppendStep(result, LocalStepResult("ui", "fail", message))
    /\ pc' = "cli.home"

UIClone ==
    /\ pc = "ui.clone"
    /\ IF IsNotExist("ui")
       THEN \E ok \in Bools :
            /\ ops' = Append(ops, Op("git clone ui", ok))
            /\ IF ok
               THEN /\ dirs' = dirs \cup {"ui"}
                    /\ pc' = "ui.install"
                    /\ printed' = Append(printed, Section("Setting up UI"))
                    /\ UNCHANGED result
               ELSE /\ UIFailed(Append(printed, Section("Setting up UI")), <<"git clone failed">>)
                    /\ dirs' = dirs
       ELSE /\ pc' = "ui.install"
            /\ printed' = Append(printed, Section("Setting up UI"))
            /\ UNCHANGED <<ops, dirs, result>>
    /\ UNCHANGED <<inputVars, token, err, files, procs, waitVars, verifyVars>>

UINpmInstall ==
    /\ pc = "ui.install"
    /\ \E ok \in Bools :
        /\ ops' = Append(ops, Op("npm install ui", ok))
        /\ IF ok
           THEN /\ pc' = "ui.env"
                /\ UNCHANGED <<result, printed>>
           ELSE UIFailed(printed, <<"npm install failed">>)
    /\ UNCHANGED <<inputVars, token, err, fsVars, waitVars, verifyVars>>

UIWriteEnv ==
    /\ pc = "ui.env"
    /\ \E ok \in Bools :
        /\ ops' = Append(ops, Op("write ui/.env.local", ok))
        /\ IF ok
           THEN /\ files' = WriteFile(files, "ui/.env.local", PermPublic, NoToken, NoPid)
                /\ pc' = "ui.log"
                /\ UNCHANGED <<result, printed>>
           ELSE /\ UIFailed(printed, <<"writing .env.local">>)
                /\ files' = files
    /\ UNCHANGED <<inputVars, token, err, dirs, procs, waitVars, verifyVars>>

UICreateLog ==
    /\ pc = "ui.log"
    /\ \E ok \in Bools :
        /\ ops' = Append(ops, Op("create ui/ui.log", ok))
        /\ IF ok
           THEN /\ files' = Create(files, "ui/ui.log")
                /\ pc' = "ui.start"
                /\ UNCHANGED <<result, printed>>
           ELSE /\ UIFailed(printed, <<"creating log file">>)
                /\ files' = files
    /\ UNCHANGED <<inputVars, token, err, dirs, procs, waitVars, verifyVars>>

UIStart ==
    /\ pc = "ui.start"
    /\ \E ok \in Bools :
        /\ ops' = Append(ops, Op("start ui", ok))
        /\ IF ok
           THEN /\ procs' = Spawn(procs, "ui")
                /\ pc' = "ui.pid"
                /\ UNCHANGED <<result, printed>>
           ELSE /\ UIFailed(printed, <<"starting UI">>)
                /\ procs' = procs
    /\ UNCHANGED <<inputVars, token, err, dirs, files, waitVars, verifyVars>>

UIWritePid ==
    /\ pc = "ui.pid"
    /\ \E ok \in Bools :
        /\ ops' = Append(ops, Op("write ui/ui.pid", ok))
        /\ files' = IF ok
                    THEN WriteFile(files, "ui/ui.pid", PermPublic, NoToken, procs[Len(procs)].pid)
                    ELSE files
    /\ pc' = "ui.wait"
    /\ UNCHANGED <<inputVars, token, err, printed, result, dirs, procs, waitVars, verifyVars>>

UIWaitPoll ==
    /\ pc = "ui.wait"
    /\ CanPoll(UITimeout)
    /\ \E g \in GetOutcomes :
        \/ /\ WaitHealthy(g[1])
           /\ WaitReset
           /\ wait' = ObserveReturn("ui", g[1])
           /\ ops' = Append(ops, Op("wait ui", TRUE))
           /\ result' = AppendStep(result,
                  LocalStepResult("ui", "ok", <<"http://localhost:", cfg.UIPort>>))
           /\ pc' = "cli.home"
        \/ /\ PollAgain(g)
           /\ wait' = ObserveRetry(g[1])
           /\ UNCHANGED <<ops, result, pc>>
    /\ UNCHANGED <<callVars, token, err, printed, fsVars, verifyVars>>

UIWaitTimeout_Fail ==
    /\ pc = "ui.wait"
    /\ CanTimeout(UITimeout)
    /\ WaitReset
    /\ wait' = ObserveTimeout
    /\ ops' = Append(ops, Op("wait ui", FALSE))
    /\ printed' = Append(printed, Warning("UI setup failed"))
    /\ result' = AppendStep(result, LocalStepResult("ui", "fail", <<"timeout">>))
    /\ pc' = "cli.home"
    /\ UNCHANGED <<callVars, token, err, fsVars, verifyVars>>

\* the timeout is only warned about: setupUI returns nil (local.go 404-407)
UIWaitTimeout ==
    /\ pc = "ui.wait"
    /\ CanTimeout(UITimeout)
    /\ WaitReset
    /\ wait' = ObserveTimeout
    /\ ops' = Append(ops, Op("wait ui", FALSE))
    /\ printed' = Append(printed, Warning("UI not responding yet"))
    /\ result' = AppendStep(result,
           LocalStepResult("ui", "ok", <<"http://localhost:", cfg.UIPort>>))
    /\ pc' = "cli.home"
    /\ UNCHANGED <<callVars, token, err, fsVars, verifyVars>>

\* ------------------------------------------------------------ configureCLI
\* (local.go 124-131, 412-431)
ConfigureCLIHome ==
    /\ pc = "cli.home"
    /\ printed' = Append(printed, Section("Configuring CLI"))
    /\ \E ok \in Bools :
        /\ ops' = Append(ops, Op("user home dir", ok))
        /\ IF ok
           THEN /\ pc' = "cli.mkdir"
                /\ UNCHANGED <<result, err>>
           ELSE Abort("cli-config", <<"home directory">>, "CLI configuration")
    /\ UNCHANGED <<inputVars, token, fsVars, waitVars, verifyVars>>

ConfigureCLIMkdir ==
    /\ pc = "cli.mkdir"
    /\ \E ok \in MkdirOutcomes("~/.reposwarm") :
        /\ ops' = Append(ops, Op("mkdir ~/.reposwarm", ok))
        /\ IF ok
           THEN /\ dirs' = dirs \cup {"~/.reposwarm"}
                /\ pc' = "cli.write"
                /\ UNCHANGED <<result, err>>
           ELSE /\ Abort("cli-config", <<"mkdir failed">>, "CLI configuration")
                /\ dirs' = dirs
    /\ UNCHANGED <<inputVars, token, printed, files, procs, waitVars, verifyVars>>

\* the token written as apiToken (local.go 421-430)
ConfigToken_Empty(t) == NoToken

ConfigToken(t) == t

ConfigureCLIWrite ==
    /\ pc = "cli.write"
    /\ \E ok \in Bools :
        /\ ops' = Append(ops, Op("write ~/.reposwarm/config.json", ok))
        /\ IF ok
           THEN /\ files' = WriteFile(files, "~/.reposwarm/config.json", PermSecret,
                                      ConfigToken(token), NoPid)
                /\ result' = AppendStep(result, LocalStepResult("cli-config", "ok", <<>>))
                /\ pc' = "verify.Temporal"
                /\ err' = err
           ELSE /\ Abort("cli-config", <<"write failed">>, "CLI configuration")
                /\ files' = files
    /\ UNCHANGED <<inputVars, token, printed, dirs, procs, waitVars, verifyVars>>

\* ---------------------------------------------------------- verifyServices
\* (local.go 133-138, 433-469) http.Get uses the default client, which has
\* no timeout: a GET may also never return (Hang).
Hang == -1

\* resp.StatusCode >= 200 && resp.StatusCode < 400 on a GET without error
VerifyHealthy_500(r) == r # 0 /\ r < 500

VerifyHealthy(r) == r # 0 /\ r >= 200 /\ r < 400

StatusText(r) ==
    CASE r = 200 -> "HTTP 200"
      [] r = 404 -> "HTTP 404"
      [] r = 503 -> "HTTP 503"
      [] OTHER -> "HTTP"

ProbeMessage(name, r) ==
    IF r = 0 THEN <<name, ": fail">>
    ELSE IF VerifyHealthy(r) THEN <<name, ": ok">>
    ELSE <<name, StatusText(r)>>

Probe_LastOnly(out, name, opname, r) ==
    /\ ops' = Append(ops, Op(opname, VerifyHealthy(r)))
    /\ messages' = messages \o ProbeMessage(name, r)
    /\ allOK' = VerifyHealthy(r)
    /\ printed' = IF VerifyHealthy(r) THEN out
                  ELSE Append(out, Warning(name))

\* one iteration of the loop over checks, the GET having returned
Probe(out, name, opname, r) ==
    /\ ops' = Append(ops, Op(opname, VerifyHealthy(r)))
    /\ messages' = messages \o ProbeMessage(name, r)
    /\ allOK' = (allOK /\ VerifyHealthy(r))
    /\ printed' = IF VerifyHealthy(r) THEN out
                  ELSE Append(out, Warning(name))

\* the GET never returns: the run stays inside verifyServices
Hung(out, opname) ==
    /\ ops' = Append(ops, Op(opname, FALSE))
    /\ printed' = out
    /\ pc' = "verify.hung"
    /\ UNCHANGED <<verifyVars, result, err>>

VerifyTemporal ==
    /\ pc = "verify.Temporal"
    /\ LET out == Append(printed, Section("Verifying services")) IN
       \E r \in Responses \cup {Hang} :
          IF r = Hang THEN Hung(out, "verify Temporal")
          ELSE /\ Probe(out, "Temporal", "verify Temporal", r)
               /\ pc' = "verify.API"
               /\ UNCHANGED <<result, err>>
    /\ UNCHANGED <<inputVars, token, fsVars, waitVars>>

VerifyAPI ==
    /\ pc = "verify.API"
    /\ \E r \in Responses \cup {Hang} :
          IF r = Hang THEN Hung(printed, "verify API")
          ELSE /\ Probe(printed, "API", "verify API", r)
               /\ pc' = "verify.UI"
               /\ UNCHANGED <<result, err>>
    /\ UNCHANGED <<inputVars, token, fsVars, waitVars>>

\* result.Success = verifyResult.Status != "fail" (local.go 138)
SuccessOf_Always(status) == TRUE

SuccessOf_Inverted(status) == status = "fail"

SuccessOf(status) == status # "fail"

\* the last check, then the step is recorded and SetupLocal returns
\* (local.go 464-468, 135-161)
VerifyUI ==
    /\ pc = "verify.UI"
    /\ \E r \in Responses \cup {Hang} :
          IF r = Hang THEN Hung(printed, "verify UI")
          ELSE /\ Probe(printed, "UI", "verify UI", r)
               /\ LET status == IF allOK' THEN "ok" ELSE "fail" IN
                  result' = [AppendStep(result, LocalStepResult("verify", status, messages'))
                                EXCEPT !.Success = SuccessOf(status)]
               /\ err' = "nil"
               /\ pc' = "done"
    /\ UNCHANGED <<inputVars, token, fsVars, waitVars>>

\* ================================================================ claims
\* The fixed order of the steps and their classification (spec 4.4).
StepOrder ==
    <<"prerequisites", "directories", "temporal", "api",
      "worker", "ui", "cli-config", "verify">>

CriticalSteps == {"prerequisites", "directories", "temporal", "api", "cli-config"}

Steps == result.Steps

Recorded(name) == \E i \in 1..Len(Steps) : Steps[i].Name = name

StepStatus(name, status) ==
    \E i \in 1..Len(Steps) : Steps[i].Name = name /\ Steps[i].Status = status

CriticalFailed == \E n \in CriticalSteps : StepStatus(n, "fail")

Returned == pc = "done"

Started(title) == \E i \in 1..Len(printed) : printed[i] = Section(title)

Called(opname) == \E i \in 1..Len(ops) : ops[i].op = opname

CalledWith(opname, ok) == \E i \in 1..Len(ops) : ops[i] = Op(opname, ok)

\* C1: when MissingDeps() is non-empty, SetupLocal calls nothing outside the
\* process (no directory, file or process appears), and it returns an error
\* with Steps holding the single entry prerequisites/fail.
C1_PrereqAbortTouchesNothing ==
    /\ [](Len(MissingDeps(env)) > 0 =>
            /\ ops = <<>>
            /\ procs = <<>>
            /\ Returned =>
                /\ err # "nil"
                /\ Len(Steps) = 1
                /\ Steps[1].Name = "prerequisites"
                /\ Steps[1].Status = "fail")
    /\ [][Len(MissingDeps(env)) > 0 => UNCHANGED <<dirs, files, procs>>]_vars

C1_Witness ==
    /\ Returned
    /\ Len(MissingDeps(env)) > 0
    /\ Len(Steps) = 1
    /\ err = "missing prerequisites"

\* C2 (as stated): for a returned result, Success holds exactly when no
\* critical step has status fail.
C2_SuccessIffNoCriticalFail ==
    Returned => (result.Success <=> ~CriticalFailed)

\* C2 (amended): for a returned result, Success holds exactly when no
\* critical step has status fail and the verify step was recorded with a
\* status other than fail; a failed worker or ui step does not matter.
C2_SuccessIffCriticalAndVerify ==
    Returned =>
        (result.Success <=>
            /\ ~CriticalFailed
            /\ Recorded("verify")
            /\ ~StepStatus("verify", "fail"))

C2_Witness ==
    /\ Returned
    /\ result.Success
    /\ StepStatus("worker", "fail")
    /\ StepStatus("ui", "fail")

\* C3: once a critical step is recorded as fail the run is over: it has
\* returned, nothing is printed, called or recorded any more, Success is
\* false; after a failed cli-config no verification probe was made.
C3_CriticalFailureEndsRun ==
    /\ [](CriticalFailed =>
            /\ Returned
            /\ ~result.Success
            /\ Steps[Len(Steps)].Status = "fail"
            /\ Steps[Len(Steps)].Name \in CriticalSteps)
    /\ [](StepStatus("cli-config", "fail") =>
            /\ ~Recorded("verify")
            /\ ~Started("Verifying services")
            /\ ~Called("verify Temporal") /\ ~Called("verify API") /\ ~Called("verify UI"))
    /\ [][CriticalFailed => UNCHANGED <<result, printed, ops, dirs, files, procs>>]_vars

C3_Witness ==
    /\ StepStatus("cli-config", "fail")
    /\ Returned
    /\ Len(Steps) = 7

WorkerOps ==
    {"git clone worker", "python3 -m venv worker", "pip install worker",
     "write worker/.env", "create worker/worker.log", "start worker",
     "write worker/worker.pid"}

UIOps ==
    {"git clone ui", "npm install ui", "write ui/.env.local", "create ui/ui.log",
     "start ui", "write ui/ui.pid", "wait ui"}

\* C4: when the API health wait times out, the run has returned with the api
\* step recorded as fail, and neither the worker nor the UI provisioning was
\* started: no section, no call and no process of theirs exists.
C4_APITimeoutAbortsBeforeWorkerAndUI ==
    CalledWith("wait api", FALSE) =>
        /\ Returned
        /\ err = "API setup"
        /\ Len(Steps) = 4
        /\ Steps[4] = LocalStepResult("api", "fail", <<"API not ready after 30s">>)
        /\ ~Started("Setting up Worker")
        /\ ~Started("Setting up UI")
        /\ \A i \in 1..Len(ops) : ops[i].op \notin WorkerOps \cup UIOps
        /\ \A i \in 1..Len(procs) : procs[i].svc = "api"

C4_Witness ==
    /\ CalledWith("wait api", FALSE)
    /\ Returned
    /\ StepStatus("api", "fail")

\* C5: whenever the worker step is recorded as fail, the run did not return
\* because of it: it stands right before the UI provisioning or has started
\* it.  (The witness is the run with worker fail and Success true.)
C5_WorkerFailureStillAttemptsUI ==
    StepStatus("worker", "fail") =>
        /\ pc = "ui.clone" \/ Started("Setting up UI")
        /\ Returned => Recorded("ui")

C5_Witness ==
    /\ Returned
    /\ StepStatus("worker", "fail")
    /\ StepStatus("ui", "ok")
    /\ result.Success

\* the error SetupLocal wraps around the failure of each critical step
ErrorFor(name) ==
    CASE name = "prerequisites" -> "missing prerequisites"
      [] name = "directories" -> "creating install directory"
      [] name = "temporal" -> "temporal setup"
      [] name = "api" -> "API setup"
      [] name = "cli-config" -> "CLI configuration"
      [] OTHER -> "nil"

\* C6: the step in which a critical step fails returns: the error is the one
\* of that step, and Steps is what was recorded before, unchanged and in
\* order, followed by the failing step's entry.
C6_AbortReturnsPartialResult ==
    /\ [][(~CriticalFailed /\ CriticalFailed') =>
            /\ Returned'
            /\ Len(Steps') = Len(Steps) + 1
            /\ SubSeq(Steps', 1, Len(Steps)) = Steps
            /\ Steps'[Len(Steps')].Status = "fail"
            /\ Steps'[Len(Steps')].Name \in CriticalSteps
            /\ err' = ErrorFor(Steps'[Len(Steps')].Name)
            /\ err' # "nil"]_vars
    /\ [](CriticalFailed => err # "nil")

C6_Witness ==
    /\ Returned
    /\ err = "temporal setup"
    /\ Len(Steps) = 3
    /\ Steps[1].Status = "ok" /\ Steps[2].Status = "ok" /\ Steps[3].Status = "fail"

AllCallsSucceeded == \A i \in 1..Len(ops) : ops[i].ok

\* C7: a returned run with all prerequisites present in which every call
\* (provisioning sub-steps, health waits, verification probes) succeeded has
\* no error, Success true, and the 8 steps in order, each ok or skip.
C7_HappyPath ==
    (Returned /\ Len(MissingDeps(env)) = 0 /\ AllCallsSucceeded) =>
        /\ err = "nil"
        /\ result.Success
        /\ Len(Steps) = 8
        /\ \A i \in 1..8 :
            /\ Steps[i].Name = StepOrder[i]
            /\ Steps[i].Status \in {"ok", "skip"}

C7_Witness ==
    /\ Returned
    /\ Len(MissingDeps(env)) = 0
    /\ AllCallsSucceeded
    /\ Len(Steps) = 8
    /\ result.Success
    /\ Len(procs) = 3

\* C8: Steps is always a prefix of the fixed step order (so no name twice,
\* none before an earlier one), and an entry once recorded never changes.
C8_StepsPrefixOfOrder ==
    /\ [](/\ Len(Steps) <= Len(StepOrder)
          /\ \A i \in 1..Len(Steps) : Steps[i].Name = StepOrder[i])
    /\ [][/\ Len(Steps') >= Len(Steps)
          /\ \A i \in 1..Len(Steps) : Steps'[i] = Steps[i]]_vars

C8_Witness ==
    /\ Len(Steps) = 8
    /\ StepStatus("worker", "fail")
    /\ StepStatus("verify", "fail")

\* C9: Success is true only in a run that returned without error with all 8
\* steps recorded, every critical step ok and verify not fail; a run that
\* returns an error has Success false.
C9_SuccessOnlyOnFullCompletion ==
    /\ result.Success =>
        /\ Returned
        /\ err = "nil"
        /\ Len(Steps) = 8
        /\ \A n \in CriticalSteps : StepStatus(n, "ok")
        /\ ~StepStatus("verify", "fail")
    /\ err # "nil" => ~result.Success

C9_Witness ==
    /\ result.Success
    /\ Returned
    /\ StepStatus("verify", "ok")
    /\ StepStatus("ui", "fail")
    /\ StepStatus("worker", "ok")

TokenIn(path) == files[path].token

RandReads == {i \in 1..Len(ops) : ops[i].op = "rand read"}

\* C10 (as stated): after a successful run in which the worker was set up,
\* the token of the result, of the API env file, of the worker's env and of
\* the CLI configuration file are the same.
C10_TokenSameInEveryService ==
    (Returned /\ result.Success /\ StepStatus("worker", "ok")) =>
        /\ result.Token \in Tokens
        /\ TokenIn("api/.env") = result.Token
        /\ TokenIn("worker/.env") = result.Token
        /\ TokenIn("~/.reposwarm/config.json") = result.Token

\* C10 (amended): the token is generated at most once and never changes; after
\* a run that returned without error the result, the API env file and the CLI
\* configuration file hold that one token, and the worker's and the UI's env
\* files hold none.
C10_TokenOnceInApiAndCli ==
    /\ [](Cardinality(RandReads) <= 1)
    /\ [][token # NoToken => (token' = token /\ result'.Token = result.Token)]_vars
    /\ []((Returned /\ err = "nil") =>
            /\ token \in Tokens
            /\ Cardinality(RandReads) = 1
            /\ result.Token = token
            /\ TokenIn("api/.env") = token
            /\ TokenIn("~/.reposwarm/config.json") = token
            /\ TokenIn("worker/.env") = NoToken
            /\ TokenIn("ui/.env.local") = NoToken)

C10_Witness ==
    /\ Returned
    /\ result.Success
    /\ StepStatus("worker", "ok")
    /\ files["worker/.env"].exists
    /\ TokenIn("api/.env") = result.Token
    /\ TokenIn("~/.reposwarm/config.json") = result.Token
    /\ result.Token \in Tokens

\* ------------------------------------------------- randomHex on its own
\* one call randomHex(n): rand.Read fails, or the filled buffer is encoded
RandomHex ==
    /\ hex.pc = "call"
    /\ \/ hex' = [hex EXCEPT !.pc = "returned", !.err = "rand read"]
       \/ \E fill \in RandFills(hex.n) :
            hex' = [hex EXCEPT !.pc = "returned", !.b = fill,
                               !.out = EncodeToString(fill)]
    /\ UNCHANGED <<env, cfg, pc, result, err, token, printed, dirs, files, procs,
                   ops, waitNow, waitTick, allOK, messages, run, wait, cmd, sideVars>>

InitHex ==
    /\ NoRun
    /\ run = 0
    /\ wait = WaitIdle
    /\ cmd = CmdIdle
    /\ SideIdle
    /\ \E n \in HexLengths : hex = HexCall(n)

NextHex == RandomHex

SpecHex == InitHex /\ [][NextHex]_vars

LowerHexChars ==
    {"0", "1", "2", "3", "4", "5", "6", "7", "8", "9", "a", "b", "c", "d", "e", "f"}

\* C11: whenever randomHex(n) returns without error its result has exactly
\* 2n characters, each one of 0-9a-f; for n = 32 that is 64 characters.
C11_RandomHexLength ==
    (hex.pc = "returned" /\ hex.err = "nil") =>
        /\ Len(hex.out) = 2 * hex.n
        /\ \A i \in 1..Len(hex.out) : hex.out[i] \in LowerHexChars
        /\ hex.n = 32 => Len(hex.out) = 64

C11_Witness ==
    /\ hex.pc = "returned"
    /\ hex.err = "nil"
    /\ hex.n = 32
    /\ Len(hex.out) = 64
    /\ hex.out[1] = "0" /\ hex.out[2] = "9" /\ hex.out[3] = "f" /\ hex.out[4] = "f"

Services == {"api", "worker", "ui"}

ClonePc(svc) ==
    CASE svc = "api" -> "api.clone" [] svc = "worker" -> "worker.clone" [] OTHER -> "ui.clone"

AfterClonePc(svc) ==
    CASE svc = "api" -> "api.install" [] svc = "worker" -> "worker.venv" [] OTHER -> "ui.install"

CloneOp(svc) ==
    CASE svc = "api" -> "git clone api" [] svc = "worker" -> "git clone worker"
      [] OTHER -> "git clone ui"

Calls(opname) == Cardinality({i \in 1..Len(ops) : ops[i].op = opname})

\* C12: for api, worker and ui, the step that begins the service's
\* provisioning invokes git clone exactly when the service's directory does
\* not exist; when it exists the run goes straight on to the dependency
\* install with no other call, and git clone is invoked nowhere else.
C12_FetchOnlyWhenDirectoryMissing ==
    [][\A svc \in Services :
        /\ (pc = ClonePc(svc) /\ pc' # pc) =>
            /\ Calls(CloneOp(svc))' = Calls(CloneOp(svc)) + (IF svc \in dirs THEN 0 ELSE 1)
            /\ svc \in dirs => (pc' = AfterClonePc(svc) /\ ops' = ops /\ dirs' = dirs)
        /\ pc # ClonePc(svc) => Calls(CloneOp(svc))' = Calls(CloneOp(svc))]_vars

C12_Witness ==
    /\ Called("npm install api")
    /\ ~Called("git clone api")
    /\ CalledWith("git clone worker", TRUE)
    /\ Called("python3 -m venv worker")

Next ==
    \/ CheckPrerequisites
    \/ GenerateToken
    \/ CreateDirectories
    \/ TemporalMkdir
    \/ TemporalWriteCompose
    \/ TemporalComposeUp
    \/ TemporalWaitPoll
    \/ TemporalWaitTimeout
    \/ APIClone
    \/ APINpmInstall
    \/ APINpmBuild
    \/ APIWriteEnv
    \/ APICreateLog
    \/ APIStart
    \/ APIWritePid
    \/ APIWaitPoll
    \/ APIWaitTimeout
    \/ WorkerClone
    \/ WorkerVenv
    \/ WorkerPip
    \/ WorkerWriteEnv
    \/ WorkerCreateLog
    \/ WorkerStart
    \/ WorkerWritePid
    \/ UIClone
    \/ UINpmInstall
    \/ UIWriteEnv
    \/ UICreateLog
    \/ UIStart
    \/ UIWritePid
    \/ UIWaitPoll
    \/ UIWaitTimeout
    \/ ConfigureCLIHome
    \/ ConfigureCLIMkdir
    \/ ConfigureCLIWrite
    \/ VerifyTemporal
    \/ VerifyAPI
    \/ VerifyUI

Spec == Init /\ [][Next]_vars

\* ------------------------------------------------ the command run again
\* `reposwarm new --local` is invoked once more (new.go 48-62) against the
\* same install directory after a run in which every call succeeded, so with
\* every service of that run up.  The new process starts SetupLocal afresh;
\* directories, files and processes are what the earlier run left.
RerunOnRunningStack ==
    /\ pc = "done"
    /\ run < MaxRuns
    /\ err = "nil"
    /\ result.Success
    /\ \A i \in 1..Len(ops) : ops[i].ok
    /\ run' = run + 1
    /\ pc' = "prerequisites"
    /\ result' = NewResult
    /\ token' = NoToken
    /\ printed' = <<>>
    /\ allOK' = TRUE
    /\ messages' = <<>>
    /\ UNCHANGED <<env, cfg, hex, err, dirs, files, procs, ops, waitVars, wait, cmd, sideVars>>

\* a machine with every prerequisite and nothing installed yet
InitRerun ==
    /\ FreshMachine
    /\ pc = "prerequisites"
    /\ hex = HexIdle
    /\ run = 1
    /\ wait = WaitIdle
    /\ cmd = CmdIdle
    /\ SideIdle

NextRerun ==
    \/ Next
    \/ RerunOnRunningStack

SpecRerun == InitRerun /\ [][NextRerun]_vars

StartOps == {"start api", "start worker", "start ui"}

InstallOp(svc) ==
    CASE svc = "api" -> "npm install api" [] svc = "worker" -> "pip install worker"
      [] OTHER -> "npm install ui"

EnvWriteOp(svc) ==
    CASE svc = "api" -> "write api/.env" [] svc = "worker" -> "write worker/.env"
      [] OTHER -> "write ui/.env.local"

StartOp(svc) ==
    CASE svc = "api" -> "start api" [] svc = "worker" -> "start worker"
      [] OTHER -> "start ui"

PidFile(svc) ==
    CASE svc = "api" -> "api/api.pid" [] svc = "worker" -> "worker/worker.pid"
      [] OTHER -> "ui/ui.pid"

ProcsOf(svc) == {i \in 1..Len(procs) : procs[i].svc = svc}

\* C13: every successful launch adds a process whatever is already running;
\* once the n-th run against the same directory has returned with every call
\* having succeeded, each service was fetched once but installed, given its
\* env file and launched n times, and n processes of it exist, the pid file
\* naming only the last.
C13_RerunSpawnsDuplicates ==
    /\ Len(procs) = Cardinality({i \in 1..Len(ops) : ops[i].op \in StartOps /\ ops[i].ok})
    /\ (Returned /\ err = "nil" /\ AllCallsSucceeded) =>
        \A svc \in Services :
            /\ Calls(CloneOp(svc)) = 1
            /\ Calls(InstallOp(svc)) = run
            /\ Calls(EnvWriteOp(svc)) = run
            /\ Calls(StartOp(svc)) = run
            /\ Cardinality(ProcsOf(svc)) = run
            /\ \A i \in ProcsOf(svc) : files[PidFile(svc)].pid >= procs[i].pid

C13_Witness ==
    /\ run = 2
    /\ Returned
    /\ AllCallsSucceeded
    /\ Len(procs) = 6
    /\ \A svc \in Services : Cardinality(ProcsOf(svc)) = 2

\* ------------------------------------------- waitForHTTP on its own
\* One call waitForHTTP(url, timeout) (local.go 519-541), with the time at
\* which it returns kept.  The endpoint either never becomes reachable (every
\* GET errors, hangs until the client's timeout, or answers 500 or above) or
\* answers anything.
WaitTimeouts == {1, 4, 7, APITimeout, TemporalTimeout}

Unreachable == {g \in GetOutcomes : g[1] = 0 \/ g[1] >= 500}

Endpoint(kind) == IF kind = "down" THEN Unreachable ELSE GetOutcomes

WaitCall(timeout, kind) ==
    [pc |-> "select", timeout |-> timeout, endpoint |-> kind, err |-> "nil",
     at |-> 0, polls |-> 0, last |-> 0]

\* the instant at which the ctx.Done() branch is taken
DoneAt(timeout) == IF waitNow >= timeout THEN waitNow ELSE timeout

\* case <-ticker.C: one GET; return nil when it is healthy, else loop
WaitForHTTPPoll ==
    /\ wait.pc = "select"
    /\ CanPoll(wait.timeout)
    /\ \E g \in Endpoint(wait.endpoint) :
        \/ /\ WaitHealthy(g[1])
           /\ waitNow' = PollStart + g[2]
           /\ waitTick' = NextTickAfter(PollStart)
           /\ wait' = [wait EXCEPT !.pc = "returned", !.err = "nil",
                                   !.at = PollStart + g[2], !.last = g[1],
                                   !.polls = @ + 1]
        \/ /\ PollAgain(g)
           /\ wait' = [wait EXCEPT !.last = g[1], !.polls = @ + 1]
    /\ UNCHANGED <<env, cfg, pc, result, err, token, printed, dirs, files, procs,
                   ops, allOK, messages, hex, run, cmd, sideVars>>

\* case <-ctx.Done(): return the timeout error
WaitForHTTPTimeout ==
    /\ wait.pc = "select"
    /\ CanTimeout(wait.timeout)
    /\ wait' = [wait EXCEPT !.pc = "returned", !.err = "timeout",
                            !.at = DoneAt(wait.timeout)]
    /\ waitNow' = DoneAt(wait.timeout)
    /\ UNCHANGED <<env, cfg, pc, result, err, token, printed, dirs, files, procs,
                   ops, waitTick, allOK, messages, hex, run, cmd, sideVars>>

InitWait ==
    /\ NoRun
    /\ hex = HexIdle
    /\ run = 0
    /\ cmd = CmdIdle
    /\ SideIdle
    /\ \E t \in WaitTimeouts, k \in {"down", "any"} : wait = WaitCall(t, k)

NextWait ==
    \/ WaitForHTTPPoll
    \/ WaitForHTTPTimeout

SpecWait == InitWait /\ [][NextWait]_vars

\* C14: a call of waitForHTTP against an endpoint that never becomes
\* reachable returns nothing but the timeout error, and the timeout error is
\* never returned before the configured timeout has elapsed.
C14_TimeoutOnlyAfterDeadline ==
    wait.pc = "returned" =>
        /\ wait.endpoint = "down" => wait.err = "timeout"
        /\ wait.err = "timeout" => wait.at >= wait.timeout
        /\ wait.err = "nil" => wait.last # 0 /\ wait.last < 500

C14_Witness ==
    /\ wait.pc = "returned"
    /\ wait.endpoint = "down"
    /\ wait.timeout = APITimeout
    /\ wait.err = "timeout"
    /\ wait.last = 503
    /\ wait.polls >= 3

\* The ticker keeps ticking and every GET returns (the client gives up after
\* ClientTimeout), so the loop keeps taking a ready branch; select picks at
\* random among ready branches, so ctx.Done(), ready from the deadline on, is
\* not passed over for ever.
FairSpecWait ==
    /\ SpecWait
    /\ WF_vars(WaitForHTTPPoll)
    /\ WF_vars(WaitForHTTPTimeout)

\* C15: whatever the endpoint does, a call of waitForHTTP eventually returns,
\* with nil or with the timeout error.
C15_WaitEventuallyReturns ==
    <>(wait.pc = "returned" /\ wait.err \in {"nil", "timeout"})

\* the deadline, not a number of attempts, ends the wait: the call returned
\* the timeout error past the deadline after GETs that hung
C15_Witness ==
    /\ wait.pc = "returned"
    /\ wait.err = "timeout"
    /\ wait.at > wait.timeout
    /\ wait.polls >= 2
    /\ wait.last = 0

ExitCode(e) == IF e # "nil" THEN 1 ELSE 0

CmdStart(json) == [flagJSON |-> json, pc |-> "running", exit |-> 0]

NewLocalReturn ==
    /\ pc = "done"
    /\ cmd.pc = "running"
    /\ \E encodeErr \in {"nil", "write stdout"} :
        cmd' = [cmd EXCEPT !.pc = "exited",
                           !.exit = IF cmd.flagJSON THEN ExitCode(encodeErr)
                                    ELSE ExitCode(err)]
    /\ UNCHANGED <<env, cfg, pc, result, err, token, printed, dirs, files, procs,
                   ops, waitNow, waitTick, allOK, messages, hex, run, wait, sideVars>>

InitCmd ==
    /\ InitSetup
    /\ hex = HexIdle
    /\ run = 1
    /\ wait = WaitIdle
    /\ \E json \in Bools : cmd = CmdStart(json)
    /\ SideIdle

NextCmd ==
    \/ Next
    \/ NewLocalReturn

SpecCmd == InitCmd /\ [][NextCmd]_vars

\* C17 (as stated): with and without --json, the command exits with code 1
\* exactly when a critical step failed; worker, ui and verify failures do not
\* change the exit code.
C17_ExitOneIffCriticalFailed ==
    cmd.pc = "exited" => (cmd.exit = 1 <=> CriticalFailed)

\* the plain mode alone: exit code 1 exactly when SetupLocal returned an error
C17_PlainExitFollowsError ==
    (cmd.pc = "exited" /\ ~cmd.flagJSON) => (cmd.exit = 1 <=> err # "nil")

\* --json, a critical step failed, and the command exited with 0
C17_JSONExitZeroOnCriticalFailure ==
    /\ cmd.pc = "exited"
    /\ cmd.flagJSON
    /\ CriticalFailed
    /\ err # "nil"
    /\ cmd.exit = 0

\* ------------------------------------------------------ the verify step
VerifyOp(svc) ==
    CASE svc = "Temporal" -> "verify Temporal"
      [] svc = "API" -> "verify API"
      [] svc = "Worker" -> "verify Worker"
      [] OTHER -> "verify UI"

\* the services verifyServices has in its table of checks
Checked == {"Temporal", "API", "UI"}

TokenFiles == {"api/.env", "~/.reposwarm/config.json"}

WriteOp(path) ==
    IF path = "api/.env" THEN "write api/.env" ELSE "write ~/.reposwarm/config.json"

\* C19 (as stated): once the write of the API env file or of the CLI
\* configuration file has completed, the file holds the generated token and
\* its permission bits are 0600, whatever was at that path before the run.
C19_TokenFilesOwnerOnly ==
    \A p \in TokenFiles :
        CalledWith(WriteOp(p), TRUE) =>
            /\ files[p].exists
            /\ files[p].token = token
            /\ files[p].perm = PermSecret

\* the token sits in a file that was there before the run with 0644, and the
\* file still has 0644
C19_TokenInReadableFile ==
    \E p \in TokenFiles :
        /\ CalledWith(WriteOp(p), TRUE)
        /\ files[p].token = token
        /\ token \in Tokens
        /\ files[p].perm = PermPublic

\* a token file that did not exist before the write gets 0600
C19_CreatedTokenFilesOwnerOnly ==
    [][\A p \in TokenFiles :
          (~files[p].exists /\ files'[p].exists) => files'[p].perm = PermSecret]_vars

\* ------------------------------------------------- MissingDeps on its own
\* The environment as Detect() fills it (part_001 14-51): the five hard
\* requirements and, of the optional tools, Go, the AWS CLI, one coding agent
\* and one package manager.  The one step taken is the prerequisites check.
DetectedEnvironments ==
    [HasDocker : Bools, HasCompose : Bools, HasNode : Bools,
     HasPython : Bools, HasGit : Bools,
     HasGo : Bools, HasAWSCLI : Bools, HasClaudeCode : Bools, HasNpm : Bools]

InitEnv ==
    /\ env \in DetectedEnvironments
    /\ cfg \in Configs
    /\ pc = "prerequisites"
    /\ result = NewResult
    /\ err = "nil"
    /\ token = NoToken
    /\ printed = <<>>
    /\ dirs = {}
    /\ files = [p \in Paths |-> Absent]
    /\ procs = <<>>
    /\ ops = <<>>
    /\ waitNow = 0
    /\ waitTick = TickInterval
    /\ allOK = TRUE
    /\ messages = <<>>
    /\ hex = HexIdle
    /\ run = 1
    /\ wait = WaitIdle
    /\ cmd = CmdIdle
    /\ SideIdle

NextEnv == CheckPrerequisites

SpecEnv == InitEnv /\ [][NextEnv]_vars

HardNames == <<"docker", "docker-compose", "node (v22+)", "python3 (3.11+)", "git">>

HardFlag(e, i) ==
    CASE i = 1 -> e.HasDocker
      [] i = 2 -> e.HasCompose
      [] i = 3 -> e.HasNode
      [] i = 4 -> e.HasPython
      [] OTHER -> e.HasGit

HardMissing(e) == {i \in 1..5 : ~HardFlag(e, i)}

ExpectedMissing(e) ==
    LET absent(i) == ~HardFlag(e, i)
        idx == SelectSeq(<<1, 2, 3, 4, 5>>, absent)
    IN [k \in 1..Len(idx) |-> HardNames[idx[k]]]

SameHardFlags(e1, e2) == \A i \in 1..5 : HardFlag(e1, i) = HardFlag(e2, i)

\* C20: MissingDeps is the list of the hard requirements docker,
\* docker-compose, node, python, git whose flag is false, in that order: as
\* long as there are false flags among the five, empty exactly when all five
\* are present, and the same whatever the flags of the optional tools; the
\* prerequisites check reports exactly these names.
C20_MissingDepsHardOnly ==
    /\ MissingDeps(env) = ExpectedMissing(env)
    /\ Len(MissingDeps(env)) = Cardinality(HardMissing(env))
    /\ MissingDeps(env) = <<>> <=> \A i \in 1..5 : HardFlag(env, i)
    /\ \A e \in DetectedEnvironments :
          SameHardFlags(e, env) => MissingDeps(e) = MissingDeps(env)
    /\ Recorded("prerequisites") =>
          /\ printed = <<Section("Checking prerequisites")>> \o ErrorLines(ExpectedMissing(env))
          /\ StepStatus("prerequisites", "fail") <=> HardMissing(env) # {}

C20_Witness ==
    /\ Recorded("prerequisites")
    /\ env.HasDocker /\ env.HasCompose /\ env.HasPython
    /\ ~env.HasNode /\ ~env.HasGit
    /\ ~env.HasGo /\ ~env.HasAWSCLI /\ ~env.HasClaudeCode /\ ~env.HasNpm
    /\ MissingDeps(env) = <<"node (v22+)", "git">>
    /\ StepStatus("prerequisites", "fail")

\* ------------------------------------------------------ Detect on its own
\* Detect (part_001 53-90) fills the Environment field by field.  cmdVersion
\* (part_001 140-147) runs the tool and waits for it with cmd.Output(): the
\* tool prints its version and exits with 0, or cannot be started or exits
\* with another code (err != nil), or never exits, and then cmd.Output()
\* never returns.  cmdExists (part_001 135-138) only looks the name up.
ZeroEnvironment ==
    [HasDocker |-> FALSE, HasCompose |-> FALSE, HasNode |-> FALSE,
     HasPython |-> FALSE, HasGit |-> FALSE,
     HasGo |-> FALSE, HasAWSCLI |-> FALSE, HasClaudeCode |-> FALSE, HasNpm |-> FALSE]

DetectStart == [pc |-> "docker", env |-> ZeroEnvironment]

\* the version checks in the order of Detect, python being tried after python3
VersionChecks == {"docker", "compose", "node", "python3", "python", "go", "git", "aws"}

LookPaths == {"claude", "npm"}

AfterCheck(tool, ok) ==
    CASE tool = "docker" -> "compose"
      [] tool = "compose" -> "node"
      [] tool = "node" -> "python3"
      [] tool = "python3" -> IF ok THEN "go" ELSE "python"
      [] tool = "python" -> "go"
      [] tool = "go" -> "git"
      [] tool = "git" -> "claude"
      [] tool = "claude" -> "aws"
      [] tool = "aws" -> "npm"
      [] OTHER -> "returned"

SetFlag(e, tool, ok) ==
    CASE tool = "docker" -> [e EXCEPT !.HasDocker = ok]
      [] tool = "compose" -> [e EXCEPT !.HasCompose = ok]
      [] tool = "node" -> [e EXCEPT !.HasNode = ok]
      [] tool = "python3" -> [e EXCEPT !.HasPython = ok]
      [] tool = "python" -> [e EXCEPT !.HasPython = ok]
      [] tool = "go" -> [e EXCEPT !.HasGo = ok]
      [] tool = "git" -> [e EXCEPT !.HasGit = ok]
      [] tool = "claude" -> [e EXCEPT !.HasClaudeCode = ok]
      [] tool = "aws" -> [e EXCEPT !.HasAWSCLI = ok]
      [] OTHER -> [e EXCEPT !.HasNpm = ok]

\* what the tool's process does
ToolOutcomes_AlwaysExits == {"version", "error"}

ToolOutcomes == {"version", "error", "never exits"}

DetectOthers ==
    <<env, cfg, pc, result, err, token, printed, dirs, files, procs, ops,
      waitNow, waitTick, allOK, messages, hex, run, wait, cmd, runs>>

DetectCmdVersion ==
    /\ det.pc \in VersionChecks
    /\ \E o \in ToolOutcomes :
        IF o = "never exits"
        THEN det' = [det EXCEPT !.pc = "blocked"]
        ELSE det' = [pc |-> AfterCheck(det.pc, o = "version"),
                     env |-> SetFlag(det.env, det.pc, o = "version")]
    /\ UNCHANGED DetectOthers

DetectCmdExists ==
    /\ det.pc \in LookPaths
    /\ \E found \in Bools :
        det' = [pc |-> AfterCheck(det.pc, found),
                env |-> SetFlag(det.env, det.pc, found)]
    /\ UNCHANGED DetectOthers

InitDetect ==
    /\ NoRun
    /\ hex = HexIdle
    /\ run = 0
    /\ wait = WaitIdle
    /\ cmd = CmdIdle
    /\ runs = RunsIdle
    /\ det = DetectStart

NextDetect ==
    \/ DetectCmdVersion
    \/ DetectCmdExists

SpecDetect == InitDetect /\ [][NextDetect]_vars

\* Detect is one sequential call: as long as the call it is in returns, it
\* goes on.
FairSpecDetect == SpecDetect /\ WF_vars(NextDetect)

\* C21: Detect always returns an Environment, whatever the version commands
\* do: a tool that fails, is missing or never exits is recorded as absent.
C21_DetectAlwaysReturns == <>(det.pc = "returned")

\* Detect is inside cmd.Output() of a tool that never exits
C21_DetectBlocked == det.pc = "blocked"

\* ------------------------------------------------- two concurrent runs
\* Two processes run SetupLocal (local.go 58-162) against the same install
\* directory and the same home directory.  Each follows the pipeline with
\* its own token; what they share is the file system and the process table.
\* Followed here are the steps that write a token or a pid: the API env
\* file, the launch of the API and its pid file (setupAPI, local.go 198-272)
\* and the CLI configuration (configureCLI, local.go 412-431).  The steps in
\* between only succeed or fail; what they leave on disk is the same
\* whichever run leaves it.
RunStart == [pc |-> "start", token |-> NoToken, pid |-> NoPid]

\* SetupLocal takes no lock and looks for no other run before it begins
CanBegin_Locked(p) == \A q \in RunIds \ {p} : runs[q].pc \in {"start", "done", "failed"}

CanBegin(p) == TRUE

AfterStep(at) ==
    CASE at = "start" -> "token"
      [] at = "token" -> "directories"
      [] at = "directories" -> "temporal"
      [] at = "temporal" -> "api.fetch"
      [] at = "api.fetch" -> "api.env"
      [] at = "api.env" -> "api.start"
      [] at = "api.start" -> "api.pid"
      [] at = "api.pid" -> "api.wait"
      [] at = "api.wait" -> "advisory"
      [] at = "advisory" -> "cli.write"
      [] OTHER -> "done"

ConcurrentOthers ==
    <<env, cfg, pc, result, err, token, printed, dirs, ops,
      waitNow, waitTick, allOK, messages, hex, run, wait, cmd, det>>

Advance(p) == [runs EXCEPT ![p].pc = AfterStep(@)]

Fail(p) == [runs EXCEPT ![p].pc = "failed"]

\* the prerequisites check on entry
RunBegin(p) ==
    /\ runs[p].pc = "start"
    /\ CanBegin(p)
    /\ runs' = Advance(p)
    /\ UNCHANGED <<files, procs, ConcurrentOthers>>

\* token, err := randomHex(32)
RunGenerateToken(p) ==
    /\ runs[p].pc = "token"
    /\ \/ \E t \in Tokens : runs' = [Advance(p) EXCEPT ![p].token = t]
       \/ runs' = Fail(p)
    /\ UNCHANGED <<files, procs, ConcurrentOthers>>

\* directories, Temporal, the API's clone, install and build, the API's
\* health wait: a failure ends the run
RunCriticalStep(p) ==
    /\ runs[p].pc \in {"directories", "temporal", "api.fetch", "api.wait"}
    /\ \E ok \in Bools : runs' = IF ok THEN Advance(p) ELSE Fail(p)
    /\ UNCHANGED <<files, procs, ConcurrentOthers>>

\* worker and UI: whatever happens the run goes on
RunAdvisorySteps(p) ==
    /\ runs[p].pc = "advisory"
    /\ runs' = Advance(p)
    /\ UNCHANGED <<files, procs, ConcurrentOthers>>

RunWriteAPIEnv(p) ==
    /\ runs[p].pc = "api.env"
    /\ \E ok \in Bools :
        IF ok
        THEN /\ files' = WriteFile(files, "api/.env", PermSecret,
                                   APIEnvToken(runs[p].token), NoPid)
             /\ runs' = Advance(p)
        ELSE /\ files' = files
             /\ runs' = Fail(p)
    /\ UNCHANGED <<procs, ConcurrentOthers>>

RunStartAPI(p) ==
    /\ runs[p].pc = "api.start"
    /\ \E ok \in Bools :
        IF ok
        THEN /\ procs' = Spawn(procs, "api")
             /\ runs' = [Advance(p) EXCEPT ![p].pid = Len(procs) + 1]
        ELSE /\ procs' = procs
             /\ runs' = Fail(p)
    /\ UNCHANGED <<files, ConcurrentOthers>>

RunWriteAPIPid(p) ==
    /\ runs[p].pc = "api.pid"
    /\ \E ok \in Bools :
        files' = IF ok
                 THEN WriteFile(files, "api/api.pid", PermPublic, NoToken, runs[p].pid)
                 ELSE files
    /\ runs' = Advance(p)
    /\ UNCHANGED <<procs, ConcurrentOthers>>

RunConfigureCLI(p) ==
    /\ runs[p].pc = "cli.write"
    /\ \E ok \in Bools :
        IF ok
        THEN /\ files' = WriteFile(files, "~/.reposwarm/config.json", PermSecret,
                                   ConfigToken(runs[p].token), NoPid)
             /\ runs' = Advance(p)
        ELSE /\ files' = files
             /\ runs' = Fail(p)
    /\ UNCHANGED <<procs, ConcurrentOthers>>

RunStep(p) ==
    \/ RunBegin(p)
    \/ RunGenerateToken(p)
    \/ RunCriticalStep(p)
    \/ RunAdvisorySteps(p)
    \/ RunWriteAPIEnv(p)
    \/ RunStartAPI(p)
    \/ RunWriteAPIPid(p)
    \/ RunConfigureCLI(p)

InitConcurrent ==
    /\ NoRun
    /\ hex = HexIdle
    /\ run = 0
    /\ wait = WaitIdle
    /\ cmd = CmdIdle
    /\ det = DetIdle
    /\ runs = [p \in RunIds |-> RunStart]

NextConcurrent == \E p \in RunIds : RunStep(p)

SpecConcurrent == InitConcurrent /\ [][NextConcurrent]_vars

\* C22: nothing makes one run wait for the other (a run that has not
\* returned can take its next step wherever the other run is), and a write
\* replaces what the other run wrote: the API env file and the CLI
\* configuration hold the token of the run that wrote them last, the pid file
\* the pid of the run that wrote it last.  So the files of one installation
\* can be left holding the tokens and pid of different runs (the witness).
C22_ConcurrentRunsInterleave ==
    /\ [](\A p \in RunIds : runs[p].pc \notin {"done", "failed"} => ENABLED RunStep(p))
    /\ [][\A p \in RunIds :
            /\ (runs[p].pc = "api.env" /\ runs'[p].pc = "api.start")
                  => files'["api/.env"].token = runs[p].token
            /\ (runs[p].pc = "api.pid" /\ runs'[p].pc = "api.wait" /\ files' # files)
                  => files'["api/api.pid"].pid = runs[p].pid
            /\ (runs[p].pc = "cli.write" /\ runs'[p].pc = "done")
                  => files'["~/.reposwarm/config.json"].token = runs[p].token]_vars

\* both runs returned without error; the API env file holds the token of one
\* run, the CLI configuration the different token of the other, and the
\* API's pid file names the process the other run launched
C22_Witness ==
    /\ \A p \in RunIds : runs[p].pc = "done"
    /\ runs[1].token # runs[2].token
    /\ files["api/.env"].token = runs[1].token
    /\ files["~/.reposwarm/config.json"].token = runs[2].token
    /\ files["api/api.pid"].pid = runs[2].pid
    /\ Len(procs) = 2

\* --------------------------------------- the two health thresholds
\* One run on a fresh machine, the status codes met by its waits kept.
InitStatus ==
    /\ FreshMachine
    /\ pc = "prerequisites"
    /\ hex = HexIdle
    /\ run = 1
    /\ cmd = CmdIdle
    /\ SideIdle
    /\ wait = WaitFollowed

SpecStatus == InitStatus /\ [][Next]_vars

WaitOp(svc) ==
    CASE svc = "temporal" -> "wait temporal" [] svc = "api" -> "wait api"
      [] OTHER -> "wait ui"

CheckName(svc) ==
    CASE svc = "temporal" -> "Temporal" [] svc = "api" -> "API" [] OTHER -> "UI"

\* verifyServices' message for the service is the given text
ProbeSaid(name, text) ==
    \E i \in 1..(Len(messages) - 1) : messages[i] = name /\ messages[i + 1] = text

ClientErrors == 400..499

\* C23: a provisioning wait loops only on a GET that failed or answered 500
\* or above and returns nil on the first answer below 500, 4xx included, the
\* service's step being recorded ok; the verify step counts only 200..399 as
\* healthy, so a service that answers 4xx there makes verify fail and Success
\* false, although its step is ok.
C23_WaitBelow500VerifyBelow400 ==
    /\ wait.rejected \subseteq {c \in Responses : c = 0 \/ c >= 500}
    /\ \A svc \in {"temporal", "api", "ui"} :
        /\ CalledWith(WaitOp(svc), TRUE) <=> wait.codes[svc] # 0
        /\ wait.codes[svc] # 0 =>
              /\ wait.codes[svc] < 500
              /\ StepStatus(svc, "ok")
        /\ (Returned /\ \E c \in Responses \cap ClientErrors :
                           ProbeSaid(CheckName(svc), StatusText(c))) =>
              /\ StepStatus("verify", "fail")
              /\ ~result.Success

C23_Witness ==
    /\ Returned
    /\ wait.codes["api"] \in ClientErrors
    /\ StepStatus("api", "ok")
    /\ ProbeSaid("API", "HTTP 404")
    /\ ProbeSaid("Temporal", ": ok")
    /\ ProbeSaid("UI", ": ok")
    /\ StepStatus("verify", "fail")
    /\ ~result.Success
    /\ err = "nil"

\* ------------------------------------------------ health after launch
LaunchOp(svc) ==
    CASE svc = "temporal" -> "docker compose up"
      [] svc = "api" -> "start api"
      [] svc = "worker" -> "start worker"
      [] OTHER -> "start ui"

HealthOp(svc) ==
    CASE svc = "temporal" -> "wait temporal"
      [] svc = "api" -> "wait api"
      [] svc = "worker" -> "wait worker"
      [] OTHER -> "wait ui"

Before(a, b) ==
    \E i, j \in 1..Len(ops) : i < j /\ ops[i].op = a /\ ops[j].op = b

PidWriteOp(svc) ==
    CASE svc = "api" -> "write api/api.pid"
      [] svc = "worker" -> "write worker/worker.pid"
      [] OTHER -> "write ui/ui.pid"

\* C25 (as stated): when the step of a service that was launched has
\* finished, the service's pid file holds the pid of the launched process,
\* or else, the pid not having been persisted, the step is recorded as fail.
C25_PidPersistedOrReported ==
    \A svc \in Services :
        (Recorded(svc) /\ CalledWith(StartOp(svc), TRUE)) =>
            IF CalledWith(PidWriteOp(svc), FALSE)
            THEN StepStatus(svc, "fail")
            ELSE \E i \in ProcsOf(svc) : files[PidFile(svc)].pid = procs[i].pid

\* the worker runs, its pid was not persisted, and its step is ok
C25_PidLostSilently ==
    /\ StepStatus("worker", "ok")
    /\ CalledWith("start worker", TRUE)
    /\ CalledWith("write worker/worker.pid", FALSE)
    /\ ~files["worker/worker.pid"].exists
    /\ printed[Len(printed)].kind = "Section"

\* ------------------------------------- the sub-steps of a provisioning
\* the calls of each provisioning function in the order of its code
SubSteps(svc) ==
    CASE svc = "api" ->
           <<"git clone api", "npm install api", "npm run build api", "write api/.env",
             "create api/api.log", "start api", "write api/api.pid", "wait api">>
      [] svc = "worker" ->
           <<"git clone worker", "python3 -m venv worker", "pip install worker",
             "write worker/.env", "create worker/worker.log", "start worker",
             "write worker/worker.pid">>
      [] OTHER ->
           <<"git clone ui", "npm install ui", "write ui/.env.local",
             "create ui/ui.log", "start ui", "write ui/ui.pid", "wait ui">>

\* acquiring the source, installing the dependencies, building
Preparation(svc) ==
    CASE svc = "api" -> {"git clone api", "npm install api", "npm run build api"}
      [] svc = "worker" -> {"git clone worker", "python3 -m venv worker", "pip install worker"}
      [] OTHER -> {"git clone ui", "npm install ui"}

OpsOf(svc) ==
    LET mine(o) == \E k \in 1..Len(SubSteps(svc)) : SubSteps(svc)[k] = o.op
    IN SelectSeq(ops, mine)

FairSpec == Spec /\ WF_vars(Next)

\* C27: every run of SetupLocal returns.
C27_SetupLocalTerminates == <>Returned

\* the run is inside a GET of verifyServices that never returns
C27_VerifyBlocked ==
    /\ pc = "verify.hung"
    /\ \E i \in 1..Len(ops) : ops[i].op \in {"verify Temporal", "verify API", "verify UI"}
    /\ StepStatus("cli-config", "ok")

\* ------------------------------------------------ errors and failed steps
\* C28: whenever SetupLocal has returned an error, the last step recorded in
\* the result has status fail.
C28_ErrorMeansLastStepFailed ==
    (Returned /\ err # "nil") =>
        /\ Len(Steps) > 0
        /\ Steps[Len(Steps)].Status = "fail"

\* the run returned the token generation error, with the one step recorded
\* being prerequisites/ok
C28_TokenErrorWithoutFailedStep ==
    /\ Returned
    /\ err = "generating token"
    /\ CalledWith("rand read", FALSE)
    /\ Len(Steps) = 1
    /\ Steps[1] = LocalStepResult("prerequisites", "ok", <<>>)
    /\ ~result.Success

\* every other error return comes with the failed step
C28_OtherErrorsHaveFailedStep ==
    (Returned /\ err \notin {"nil", "generating token"}) =>
        /\ Len(Steps) > 0
        /\ Steps[Len(Steps)].Status = "fail"
        /\ err = ErrorFor(Steps[Len(Steps)].Name)

\* -------------------------------------- the CLI configuration file
ConfigPath == "~/.reposwarm/config.json"

BeforeCLI == {"prerequisites", "directories", "temporal", "api"}

\* C29: the CLI configuration file changes only in the write of
\* configureCLI, which is reached only with the api step recorded ok; a run
\* in which prerequisites, directories, temporal or api failed has made no
\* call on ~/.reposwarm at all, so what the file held before is still there.
C29_AbortLeavesCLIConfig ==
    /\ []((\E n \in BeforeCLI : StepStatus(n, "fail")) =>
            /\ Returned
            /\ ~Called("user home dir")
            /\ ~Called("mkdir ~/.reposwarm")
            /\ ~Called("write ~/.reposwarm/config.json"))
    /\ [][(files'[ConfigPath] # files[ConfigPath]) =>
            /\ pc = "cli.write"
            /\ StepStatus("api", "ok")
            /\ \A n \in BeforeCLI : ~StepStatus(n, "fail")]_vars

C29_Witness ==
    /\ Returned
    /\ StepStatus("api", "fail")
    /\ token \in Tokens
    /\ TokenIn("api/.env") = token
    /\ files[ConfigPath] = File(PermSecret, OldToken, NoPid)

\* ------------------------------------------- the coordinator's ports
\* The manifest TemporalComposeLocal() returns (local.go 473-517) is a
\* string constant; these are its `ports:` entries, host port first.
TemporalComposeLocal ==
    {<<"5432", "5432">>, <<"7233", "7233">>, <<"8233", "8080">>}

PublishedPorts == {m[1] : m \in TemporalComposeLocal}

\* Config is filled from the user's configuration, any port being allowed
\* there (part_004 26-29, 59-67); the defaults and one other value of each
\* of the coordinator's ports
PortConfigs ==
    {[TemporalPort |-> DefaultTemporalPort, TemporalUIPort |-> DefaultTemporalUIPort,
      APIPort |-> DefaultAPIPort, UIPort |-> DefaultUIPort],
     [TemporalPort |-> "7234", TemporalUIPort |-> "8080",
      APIPort |-> DefaultAPIPort, UIPort |-> DefaultUIPort]}

InitPorts ==
    /\ env \in Environments
    /\ cfg \in PortConfigs
    /\ pc = "prerequisites"
    /\ result = NewResult
    /\ err = "nil"
    /\ token = NoToken
    /\ printed = <<>>
    /\ \E d \in InitialDirs :
        /\ files \in InitialFiles(d)
        /\ dirs = d \cup (IF files["~/.reposwarm/config.json"].exists
                          THEN {"~/.reposwarm"} ELSE {})
    /\ procs = <<>>
    /\ ops = <<>>
    /\ waitNow = 0
    /\ waitTick = TickInterval
    /\ allOK = TRUE
    /\ messages = <<>>
    /\ hex = HexIdle
    /\ run = 1
    /\ wait = WaitIdle
    /\ cmd = CmdIdle
    /\ SideIdle

SpecPorts == InitPorts /\ [][Next]_vars

\* C30: once the manifest is written, the port the health wait and the
\* verification poll (cfg.TemporalPort) and the port of the URL recorded in
\* the temporal step (cfg.TemporalUIPort) are host ports the manifest
\* publishes.
C30_ProbedPortsPublished ==
    CalledWith("write temporal/docker-compose.yml", TRUE) =>
        /\ cfg.TemporalPort \in PublishedPorts
        /\ cfg.TemporalUIPort \in PublishedPorts
        /\ StepStatus("temporal", "ok") =>
              \E i \in 1..Len(Steps) :
                  /\ Steps[i].Name = "temporal"
                  /\ Steps[i].Message[2] \in PublishedPorts

\* the run waited on a coordinator port the manifest does not publish
C30_WaitOnUnpublishedPort ==
    /\ cfg.TemporalPort \notin PublishedPorts
    /\ files["temporal/docker-compose.yml"].exists
    /\ CalledWith("docker compose up", TRUE)
    /\ CalledWith("wait temporal", FALSE)
    /\ StepStatus("temporal", "fail")

\* with the default ports the manifest and the probes agree
C30_DefaultPortsPublished ==
    (cfg.TemporalPort = DefaultTemporalPort /\ cfg.TemporalUIPort = DefaultTemporalUIPort) =>
        {cfg.TemporalPort, cfg.TemporalUIPort} \subseteq PublishedPorts

====
